---- MODULE Spec2Model ----
(***************************************************************************)
(* Documentation-2-PDF: the generic pipeline (doc_scraper.py) driven by    *)
(* the React Native adapter (site_handlers/react_native.py), and the       *)
(* legacy single-site script (playwright_scraper.py).                      *)
(*                                                                         *)
(* Strings.  A URL or href is a sequence of tokens: an origin token        *)
(* ("https://reactnative.dev"), the separator "/", the path prefix         *)
(* "/docs/" and plain path segments.  "/docs/a" is <<"/docs/", "a">>.      *)
(* File names and page titles are sequences of ASCII codes, so that the    *)
(* formatting of the index and the comparison of names are computed.       *)
(***************************************************************************)
EXTENDS Integers, Sequences, FiniteSets, TLC

\* Bound of the model: the sidebar holds at most MaxNodes nodes (top-level
\* groups plus leaf links).
MaxNodes == 4

\* Bound of the two-invocation specification: the sidebar's nodes there.
MaxRerunNodes == 3

\* Bound of the discovery-only specification: the sidebar's nodes there.
MaxDiscoveryNodes == 4

(***************************************************************************)
(* URLs                                                                    *)
(***************************************************************************)
base_url == "https://reactnative.dev"
OtherOrigin == "https://other.dev"
BadOrigin == "http://["
Origins == {base_url, OtherOrigin, BadOrigin}

\* href.startswith('/')
StartsWithSlash(href) == href # <<>> /\ Head(href) \in {"/", "/docs/"}

\* '/docs/' in href
ContainsDocs(href) == \E k \in 1..Len(href) : href[k] = "/docs/"

\* urljoin(self.base_url, href), used only for an href that starts with '/':
\* the base's origin followed by the href's absolute path.
urljoin(base, href) == <<base>> \o href

\* urlparse(url) raises ValueError on a malformed netloc ("Invalid IPv6 URL").
UrlparseRaises(url) == url # <<>> /\ Head(url) = BadOrigin

\* urlparse(url).path: what follows the origin; a relative reference is all path.
UrlPath(url) == IF url # <<>> /\ Head(url) \in Origins THEN Tail(url) ELSE url

\* The characters of a token.
TokenChars(tok) ==
    CASE tok = "/" -> <<47>>
      [] tok = "/docs/" -> <<47, 100, 111, 99, 115, 47>>
      [] tok = ".." -> <<46, 46>>
      [] tok = "a" -> <<97>>
      [] tok = "u" -> <<117>>
      [] tok = "x" -> <<120>>
      [] tok = "blog" -> <<98, 108, 111, 103>>
      [] OTHER -> <<63>>

(***************************************************************************)
(* generate_file_entry                                                     *)
(***************************************************************************)
RECURSIVE ReplaceDocsAndSlash(_)
\* path.replace('/docs/', '').replace('/', '_'), as characters.
ReplaceDocsAndSlash(path) ==
    IF path = <<>> THEN <<>>
    ELSE LET t == Head(path)
             c == IF t = "/docs/" THEN <<>>
                  ELSE IF t = "/" THEN <<95>>
                  ELSE TokenChars(t)
         IN c \o ReplaceDocsAndSlash(Tail(path))

RECURSIVE LStrip(_)
LStrip(s) == IF s # <<>> /\ Head(s) = 95 THEN LStrip(Tail(s)) ELSE s

RECURSIVE RStrip(_)
RStrip(s) ==
    IF s # <<>> /\ s[Len(s)] = 95 THEN RStrip(SubSeq(s, 1, Len(s) - 1)) ELSE s

\* str.strip('_')
Strip(s) == RStrip(LStrip(s))

\* [\w\-_.] : letters, digits, '_', '-', '.'
IsWordChar(c) ==
    \/ c \in 48..57
    \/ c \in 65..90
    \/ c \in 97..122
    \/ c \in {95, 45, 46}

\* re.sub(r'[^\w\-_.]', '_', filename)
CleanChars(s) == [k \in 1..Len(s) |-> IF IsWordChar(s[k]) THEN s[k] ELSE 95]

RECURSIVE CollapseUnderscores(_)
\* re.sub(r'_+', '_', filename)
CollapseUnderscores(s) ==
    IF Len(s) < 2 THEN s
    ELSE IF s[1] = 95 /\ s[2] = 95 THEN CollapseUnderscores(Tail(s))
    ELSE <<s[1]>> \o CollapseUnderscores(Tail(s))

GettingStarted == <<103, 101, 116, 116, 105, 110, 103, 95, 115, 116, 97, 114, 116, 101, 100>>
DotPdf == <<46, 112, 100, 102>>

\* The slug of a URL (react_native.py lines 199-207).
Slug(url) ==
    LET stripped == Strip(ReplaceDocsAndSlash(UrlPath(url)))
        named == IF stripped = <<>> THEN GettingStarted ELSE stripped
    IN CollapseUnderscores(CleanChars(named))

RECURSIVE Digits(_)
\* The decimal digits of n >= 0.
Digits(n) == IF n < 10 THEN <<48 + n>> ELSE Digits(n \div 10) \o <<48 + (n % 10)>>

\* f"{index:03d}": zero-padded to a minimum width of three, never truncated.
Format03d(n) ==
    LET d == Digits(n)
    IN IF Len(d) >= 3 THEN d ELSE [k \in 1..(3 - Len(d)) |-> 48] \o d

\* filename.replace('_', ' ').title()
TitleCase(s) ==
    [k \in 1..Len(s) |->
        LET c == IF s[k] = 95 THEN 32 ELSE s[k]
            prevLetter == k > 1 /\ (s[k-1] \in 65..90 \/ s[k-1] \in 97..122)
        IN IF c \in 97..122 /\ ~prevLetter THEN c - 32
           ELSE IF c \in 65..90 /\ prevLetter THEN c + 32
           ELSE c]

\* index = len(self.visited_urls) - 1
EntryIndex(visited) == Cardinality(visited) - 1

\* ReactNativeHandler.generate_file_entry: the entry has no 'filename' key.
generate_file_entry(url, title, section, visited) ==
    [title |-> IF title # <<>> THEN title ELSE TitleCase(Slug(url)),
     url |-> url,
     section |-> section,
     pdf_filename |-> Format03d(EntryIndex(visited)) \o <<95>> \o Slug(url) \o DotPdf]

(***************************************************************************)
(* Discovery: ReactNativeHandler.get_all_doc_urls                          *)
(***************************************************************************)
\* One leaf link of the sidebar: its href (<<>> when the attribute is absent
\* or empty), its text, and whether reading it raises.
\* One top-level group: its display title and its leaf links in DOM order.

\* ProcessLink with the new entry put in front of the list instead of at its end.
ProcessLinkPrepend(st, link, section_title) ==
    IF link.raises THEN st
    ELSE IF link.href # <<>> /\ ContainsDocs(link.href)
            /\ link.href \notin st.visited_urls
    THEN LET url == IF StartsWithSlash(link.href)
                    THEN urljoin(base_url, link.href) ELSE link.href
             visited == st.visited_urls \cup {url}
         IN IF UrlparseRaises(url)
            THEN [st EXCEPT !.visited_urls = visited]
            ELSE [st EXCEPT !.visited_urls = visited,
                            !.doc_metadata = <<generate_file_entry(url, link.title,
                                                  section_title, visited)>> \o @]
    ELSE st

\* The body of the "for link in sidebar_links" loop (lines 80-92); st is the
\* handler state and the list built so far.
ProcessLink(st, link, section_title) ==
    IF link.raises THEN st
    ELSE IF link.href # <<>> /\ ContainsDocs(link.href)
            /\ link.href \notin st.visited_urls
    THEN LET url == IF StartsWithSlash(link.href)
                    THEN urljoin(base_url, link.href) ELSE link.href
             visited == st.visited_urls \cup {url}
         IN IF UrlparseRaises(url)
            THEN [st EXCEPT !.visited_urls = visited]
            ELSE [st EXCEPT !.visited_urls = visited,
                            !.doc_metadata = Append(@,
                                generate_file_entry(url, link.title, section_title, visited))]
    ELSE st

RECURSIVE ProcessLinksStopAtRaise(_, _, _)
\* ProcessLinks with the try block around the whole loop instead of inside
\* it: the first link that raises ends the section's loop.
ProcessLinksStopAtRaise(st, links, section_title) ==
    IF links = <<>> THEN st
    ELSE IF Head(links).raises \/ UrlparseRaises(Head(links).href)
    THEN ProcessLink(st, Head(links), section_title)
    ELSE ProcessLinksStopAtRaise(ProcessLink(st, Head(links), section_title),
                                 Tail(links), section_title)

RECURSIVE ProcessLinks(_, _, _)
ProcessLinks(st, links, section_title) ==
    IF links = <<>> THEN st
    ELSE ProcessLinks(ProcessLink(st, Head(links), section_title), Tail(links), section_title)

RECURSIVE ProcessSections(_, _)
\* The "for section in sections" loop (lines 74-92).
ProcessSections(st, secs) ==
    IF secs = <<>> THEN st
    ELSE LET s == Head(secs)
             st1 == [st EXCEPT !.sections = Append(@, s.title)]
         IN ProcessSections(ProcessLinks(st1, s.links, s.title), Tail(secs))

\* get_all_doc_urls on a handler whose state is (visited, secs), with the
\* sidebar present.
GetAllDocUrls(tree, visited, secs) ==
    ProcessSections([visited_urls |-> visited, sections |-> secs, doc_metadata |-> <<>>], tree)


(***************************************************************************)
(* The site: the navigation trees and the links they are built from        *)
(***************************************************************************)
TitleA == <<65>>
TitleU == <<85>>

\* The same page as a site-relative and as an absolute href, a second page,
\* and a link outside the documentation.
RelA == [href |-> <<"/docs/", "a">>, title |-> TitleA, raises |-> FALSE]
AbsA == [href |-> <<base_url, "/docs/", "a">>, title |-> TitleA, raises |-> FALSE]
RelU == [href |-> <<"/docs/", "u">>, title |-> TitleU, raises |-> FALSE]
Blog == [href |-> <<"/", "blog">>, title |-> <<>>, raises |-> FALSE]

PipelineLinks == {RelA, AbsA, RelU, Blog}

\* A link whose href or text cannot be read, and a documentation link whose
\* absolute href urlparse rejects when the entry is built.
Unreadable == [href |-> <<"/docs/", "x">>, title |-> <<>>, raises |-> TRUE]
BadAbs == [href |-> <<BadOrigin, "/docs/", "x">>, title |-> <<>>, raises |-> FALSE]

\* Links that contain '/docs/' without lying under the base URL's /docs/:
\* on another host, below another path of the site, and path-relative.
OtherHost == [href |-> <<OtherOrigin, "/docs/", "a">>, title |-> TitleA, raises |-> FALSE]
BelowBlog == [href |-> <<"/", "blog", "/docs/", "x">>, title |-> <<>>, raises |-> FALSE]
PathRelative == [href |-> <<"..", "/docs/", "x">>, title |-> <<>>, raises |-> FALSE]

DiscoveryLinks ==
    PipelineLinks \cup {Unreadable, BadAbs, OtherHost, BelowBlog, PathRelative}
SectionTitles == {"Basics", "Guides"}

RECURSIVE TreesOfSize(_, _)
\* The trees with exactly n nodes (groups plus links) over the links L.
TreesOfSize(L, n) ==
    IF n = 0 THEN {<<>>}
    ELSE UNION {
        {<<[title |-> t, links |-> ls]>> \o rest :
            t \in SectionTitles, ls \in [1..k -> L], rest \in TreesOfSize(L, n - 1 - k)}
        : k \in 0..(n - 1)}

Trees(L, max) == UNION {TreesOfSize(L, n) : n \in 0..max}

(***************************************************************************)
(* The individual_pdfs directory: file name -> who wrote the file          *)
(***************************************************************************)
\* individual_pdfs with no file in it.
EmptyDir == [n \in {} |-> 0]

\* The directory after a file is written.
WriteFile(dir, name, stamp) ==
    [n \in DOMAIN dir \cup {name} |-> IF n = name THEN stamp ELSE dir[n]]

\* os.path.exists(self.individual_pdfs_dir / name)
Exists(dir, name) == name \in DOMAIN dir

(***************************************************************************)
(* State                                                                   *)
(***************************************************************************)
VARIABLES
    nav,            \* the site's navigation tree (unchanged during the runs)
    cached,         \* DocumentationScraper.cached of the current invocation
    rerun,          \* FALSE in the first invocation, TRUE in the second
    pc,             \* position in scrape_all_docs
    browser,        \* "none", "open" or "closed"
    visited_urls,   \* site_handler.visited_urls
    sections,       \* site_handler.sections
    doc_metadata,   \* self.doc_metadata, the same list object as all_docs
    discovered,     \* the list as get_all_doc_urls returned it (history)
    i,              \* entries the render loop has processed
    successful,
    failed,
    files,          \* individual_pdfs: file name -> who wrote it
    navigations,    \* page.goto calls of the render loop in this invocation
    browser_errors, \* render calls of this invocation in which the browser raised
    prior,          \* the first invocation as the second one finds it (history)
    last,           \* what the save_page_as_pdf call just made did (while in the loop)
    toc_html,       \* the items create_table_of_contents produced
    toc_created,    \* "none", or what create_toc_pdf returned
    report,         \* the printed summary
    merged,         \* the files merger.append was called with, in order
    warnings,       \* the files reported "not found, skipping"
    merge_result    \* "none", "path" or "None"

vars == <<nav, cached, rerun, pc, browser, visited_urls, sections, doc_metadata,
          discovered, i, successful, failed, files, navigations, browser_errors,
          prior, last, toc_html, toc_created, report, merged, warnings, merge_result>>

\* all_docs of scrape_all_docs: line 53 binds self.doc_metadata to the same list.
all_docs == doc_metadata

NoCall == [called |-> FALSE]
NoReport == [printed |-> FALSE]
NoPrior == [ran |-> FALSE]

\* The state of a freshly started process (main, lines 478-485), given the
\* directory contents it finds.
FreshProcess(tree, flag, second, dir) ==
    /\ nav = tree
    /\ cached = flag
    /\ rerun = second
    /\ pc = "discover"
    /\ browser = "none"
    /\ visited_urls = {}
    /\ sections = <<>>
    /\ doc_metadata = <<>>
    /\ discovered = <<>>
    /\ i = 0
    /\ successful = 0
    /\ failed = 0
    /\ files = dir
    /\ navigations = 0
    /\ browser_errors = 0
    /\ prior = NoPrior
    /\ last = NoCall
    /\ toc_html = <<>>
    /\ toc_created = "none"
    /\ report = NoReport
    /\ merged = <<>>
    /\ warnings = <<>>
    /\ merge_result = "none"

InitWith(L, max) ==
    \E tree \in Trees(L, max), flag \in BOOLEAN : FreshProcess(tree, flag, FALSE, EmptyDir)

Init == InitWith(PipelineLinks, MaxNodes)

(***************************************************************************)
(* scrape_all_docs, lines 36-55: launch, discovery, the no-entries exit    *)
(***************************************************************************)
\* Discover without the "if not all_docs" exit of lines 48-51: the run goes
\* on to the render loop with whatever list it got.
DiscoverNoExit ==
    /\ pc = "discover"
    /\ \E sidebar \in BOOLEAN :
        LET r == GetAllDocUrls(nav, visited_urls, sections)
            docs == IF sidebar THEN r.doc_metadata ELSE <<>>
        IN /\ visited_urls' = IF sidebar THEN r.visited_urls ELSE visited_urls
           /\ sections' = IF sidebar THEN r.sections ELSE sections
           /\ discovered' = docs
           /\ browser' = "open"
           /\ pc' = "render"
           /\ doc_metadata' = docs
    /\ UNCHANGED <<nav, cached, rerun, i, successful, failed, files, navigations,
                   browser_errors, prior, last, toc_html, toc_created, report, merged,
                   warnings, merge_result>>

Discover ==
    /\ pc = "discover"
    /\ \E sidebar \in BOOLEAN :
        LET r == GetAllDocUrls(nav, visited_urls, sections)
            docs == IF sidebar THEN r.doc_metadata ELSE <<>>
        IN /\ visited_urls' = IF sidebar THEN r.visited_urls ELSE visited_urls
           /\ sections' = IF sidebar THEN r.sections ELSE sections
           /\ discovered' = docs
           /\ IF docs = <<>>
              THEN /\ browser' = "closed"
                   /\ pc' = "aborted"
                   /\ UNCHANGED doc_metadata
              ELSE /\ browser' = "open"
                   /\ pc' = "render"
                   /\ doc_metadata' = docs
    /\ UNCHANGED <<nav, cached, rerun, i, successful, failed, files, navigations,
                   browser_errors, prior, last, toc_html, toc_created, report, merged,
                   warnings, merge_result>>


\* Discovery raises out of get_all_doc_urls and so out of scrape_all_docs,
\* which has no handler and no finally clause: at the first navigation or
\* load wait (react_native.py lines 37-38, at = 0), or at the read of the title
\* of group number at (line 75), after the groups before it were processed.
\* browser.close() is not reached; main prints the error (lines 487-492).
DiscoverRaises ==
    /\ pc = "discover"
    /\ \E at \in 0..Len(nav) :
        LET r == GetAllDocUrls(SubSeq(nav, 1, at - 1), visited_urls, sections)
        IN /\ visited_urls' = IF at = 0 THEN visited_urls ELSE r.visited_urls
           /\ sections' = IF at = 0 THEN sections ELSE r.sections
    /\ browser' = "open"
    /\ pc' = "raised"
    /\ UNCHANGED <<nav, cached, rerun, doc_metadata, discovered, i, successful, failed,
                   files, navigations, browser_errors, prior, last, toc_html,
                   toc_created, report, merged, warnings, merge_result>>

(***************************************************************************)
(* save_page_as_pdf, one iteration of the render loop (lines 60-66, 85-136)*)
(***************************************************************************)
\* Where a render can raise: page.goto, wait_for_selector, page.evaluate of
\* the title script, add_style_tag, page.pdf; or nowhere.
RenderOutcomes == {"goto", "selector", "evaluate", "style", "pdf", "ok"}

\* CacheHit looking for the file in the wrong directory: it is never found.
CacheHitWrongDir(flag, dir, doc) == flag /\ Exists(EmptyDir, doc.pdf_filename)

\* Line 88: the cache short-circuit.
CacheHit(flag, dir, doc) == flag /\ Exists(dir, doc.pdf_filename)

\* Line 131: print(f"... {doc['filename']}") raises KeyError without the key.
HasFilenameKey(doc) == "filename" \in DOMAIN doc

\* RenderEffects without the cache short-circuit.
RenderEffectsNoCache(flag, dir, doc, index, outcome) ==
    [called |-> TRUE, index |-> index, cache_hit |-> FALSE, navigated |-> TRUE,
     stabilized |-> outcome \in {"evaluate", "style", "pdf", "ok"},
     banner |-> IF outcome \in {"style", "pdf", "ok"} THEN index + 1 ELSE 0,
     styled |-> outcome \in {"pdf", "ok"},
     pdf_written |-> outcome = "ok",
     returned |-> outcome = "ok" /\ HasFilenameKey(doc)]

\* What one call does, given where the browser fails: the steps it reached
\* and its return value.
RenderEffects(flag, dir, doc, index, outcome) ==
    IF CacheHit(flag, dir, doc)
    THEN [called |-> TRUE, index |-> index, cache_hit |-> TRUE, navigated |-> FALSE,
          stabilized |-> FALSE, banner |-> 0, styled |-> FALSE,
          pdf_written |-> FALSE, returned |-> TRUE]
    ELSE [called |-> TRUE, index |-> index, cache_hit |-> FALSE, navigated |-> TRUE,
          stabilized |-> outcome \in {"evaluate", "style", "pdf", "ok"},
          banner |-> IF outcome \in {"style", "pdf", "ok"} THEN index + 1 ELSE 0,
          styled |-> outcome \in {"pdf", "ok"},
          pdf_written |-> outcome = "ok",
          returned |-> outcome = "ok" /\ HasFilenameKey(doc)]

\* SavePageAsPdf without the try/except of lines 87 and 134-136: an error
\* leaves the render loop and scrape_all_docs.
SavePageAsPdfNoCatch ==
    /\ pc = "render"
    /\ i < Len(all_docs)
    /\ \E outcome \in RenderOutcomes :
        LET doc == all_docs[i + 1]
            e == RenderEffects(cached, files, doc, i, outcome)
        IN /\ last' = e
           /\ navigations' = IF e.navigated THEN navigations + 1 ELSE navigations
           /\ files' = IF e.pdf_written
                       THEN WriteFile(files, doc.pdf_filename, [second |-> rerun, by |-> i + 1])
                       ELSE files
           /\ successful' = IF e.returned THEN successful + 1 ELSE successful
           /\ failed' = failed
           /\ browser_errors' = IF e.navigated /\ outcome # "ok"
                                THEN browser_errors + 1 ELSE browser_errors
           /\ pc' = IF e.returned THEN pc ELSE "crashed"
           /\ i' = IF e.returned THEN i + 1 ELSE i
    /\ UNCHANGED <<nav, cached, rerun, browser, visited_urls, sections, doc_metadata,
                   discovered, prior, toc_html, toc_created, report, merged, warnings,
                   merge_result>>

\* SavePageAsPdf with one retry: an entry whose render returned False is
\* attempted a second time before the loop moves on.
SavePageAsPdfRetry ==
    /\ pc = "render"
    /\ i < Len(all_docs)
    /\ \E outcome \in RenderOutcomes :
        LET doc == all_docs[i + 1]
            e == RenderEffects(cached, files, doc, i, outcome)
            retry == ~e.returned /\ ~(last.called /\ last.index = i)
        IN /\ last' = e
           /\ navigations' = IF e.navigated THEN navigations + 1 ELSE navigations
           /\ files' = IF e.pdf_written
                       THEN WriteFile(files, doc.pdf_filename, [second |-> rerun, by |-> i + 1])
                       ELSE files
           /\ successful' = IF e.returned THEN successful + 1 ELSE successful
           /\ failed' = IF e.returned \/ retry THEN failed ELSE failed + 1
           /\ browser_errors' = IF e.navigated /\ outcome # "ok"
                                THEN browser_errors + 1 ELSE browser_errors
           /\ i' = IF retry THEN i ELSE i + 1
    /\ UNCHANGED <<nav, cached, rerun, pc, browser, visited_urls, sections, doc_metadata,
                   discovered, prior, toc_html, toc_created, report, merged, warnings,
                   merge_result>>

SavePageAsPdf ==
    /\ pc = "render"
    /\ i < Len(all_docs)
    /\ \E outcome \in RenderOutcomes :
        LET doc == all_docs[i + 1]
            e == RenderEffects(cached, files, doc, i, outcome)
        IN /\ last' = e
           /\ navigations' = IF e.navigated THEN navigations + 1 ELSE navigations
           /\ files' = IF e.pdf_written
                       THEN WriteFile(files, doc.pdf_filename, [second |-> rerun, by |-> i + 1])
                       ELSE files
           /\ successful' = IF e.returned THEN successful + 1 ELSE successful
           /\ failed' = IF e.returned THEN failed ELSE failed + 1
           /\ browser_errors' = IF e.navigated /\ outcome # "ok"
                                THEN browser_errors + 1 ELSE browser_errors
    /\ i' = i + 1
    /\ UNCHANGED <<nav, cached, rerun, pc, browser, visited_urls, sections, doc_metadata,
                   discovered, prior, toc_html, toc_created, report, merged, warnings,
                   merge_result>>

(***************************************************************************)
(* create_table_of_contents and create_toc_pdf (lines 297-325, 345-384)    *)
(***************************************************************************)
\* "000_table_of_contents.pdf"
TocName ==
    <<48, 48, 48, 95, 116, 97, 98, 108, 101, 95, 111, 102, 95, 99, 111, 110, 116,
      101, 110, 116, 115, 46, 112, 100, 102>>

\* "Table of Contents"
TocTitle ==
    <<84, 97, 98, 108, 101, 32, 111, 102, 32, 67, 111, 110, 116, 101, 110, 116, 115>>

TocEntry == [title |-> TocTitle, url |-> <<"Table of Contents">>, pdf_filename |-> TocName]

\* sections_dict[section]: the docs of a section, in list order.
SectionDocs(docs, section) == SelectSeq(docs, LAMBDA d : d.section = section)

\* section in sections_dict
InSectionsDict(docs, section) == \E k \in 1..Len(docs) : docs[k].section = section

\* The toc-entry items of one section, numbered from counter.
SectionItems(ds, counter) ==
    [k \in 1..Len(ds) |->
        [kind |-> "entry", number |-> counter + k - 1, title |-> ds[k].title,
         url |-> ds[k].url]]

RECURSIVE TocItems(_, _, _)
\* The loop over self.site_handler.sections with its running article_counter.
TocItems(docs, secs, counter) ==
    IF secs = <<>> THEN <<>>
    ELSE IF InSectionsDict(docs, Head(secs))
    THEN LET ds == SectionDocs(docs, Head(secs))
         IN <<[kind |-> "header", section |-> Head(secs)]>>
            \o SectionItems(ds, counter)
            \o TocItems(docs, Tail(secs), counter + Len(ds))
    ELSE TocItems(docs, Tail(secs), counter)

create_table_of_contents(docs, secs) == TocItems(docs, secs, 1)

\* Where create_toc_pdf can raise: before the file is written (new_page,
\* set_content, pdf), after it (toc_page.close), or nowhere.
TocOutcomes == {"render", "close", "ok"}

\* self.doc_metadata.insert(0, ...)
InsertToc(docs) == <<TocEntry>> \o docs

\* CreateTocPdf with the insertion moved out of the try block: the pseudo-entry
\* goes in whether or not the export succeeded.
CreateTocPdfAlwaysInsert ==
    /\ pc = "render"
    /\ i = Len(all_docs)
    /\ toc_html' = create_table_of_contents(doc_metadata, sections)
    /\ \E outcome \in TocOutcomes :
        /\ files' = IF outcome \in {"close", "ok"}
                    THEN WriteFile(files, TocName, [second |-> rerun, by |-> 0])
                    ELSE files
        /\ doc_metadata' = InsertToc(doc_metadata)
        /\ toc_created' = IF outcome = "ok" THEN "True" ELSE "False"
    /\ last' = NoCall
    /\ pc' = "report"
    /\ UNCHANGED <<nav, cached, rerun, browser, visited_urls, sections, discovered, i,
                   successful, failed, navigations, browser_errors, prior, report,
                   merged, warnings, merge_result>>

CreateTocPdf ==
    /\ pc = "render"
    /\ i = Len(all_docs)
    /\ toc_html' = create_table_of_contents(doc_metadata, sections)
    /\ \E outcome \in TocOutcomes :
        /\ files' = IF outcome \in {"close", "ok"}
                    THEN WriteFile(files, TocName, [second |-> rerun, by |-> 0])
                    ELSE files
        /\ doc_metadata' = IF outcome = "ok" THEN InsertToc(doc_metadata) ELSE doc_metadata
        /\ toc_created' = IF outcome = "ok" THEN "True" ELSE "False"
    /\ last' = NoCall
    /\ pc' = "report"
    /\ UNCHANGED <<nav, cached, rerun, browser, visited_urls, sections, discovered, i,
                   successful, failed, navigations, browser_errors, prior, report,
                   merged, warnings, merge_result>>

(***************************************************************************)
(* Lines 71-77: close the browser and print the summary                    *)
(***************************************************************************)
\* Report moved in front of the create_toc_pdf call: the summary is printed
\* as soon as the render loop ends and the TOC is never made.
ReportBeforeToc ==
    /\ pc = "render"
    /\ i = Len(all_docs)
    /\ browser' = "closed"
    /\ report' = [printed |-> TRUE, successful |-> successful, failed |-> failed,
                  total |-> Len(all_docs)]
    /\ pc' = "merge"
    /\ UNCHANGED <<nav, cached, rerun, visited_urls, sections, doc_metadata, discovered,
                   i, successful, failed, files, navigations, browser_errors, prior,
                   last, toc_html, toc_created, merged, warnings, merge_result>>

Report ==
    /\ pc = "report"
    /\ browser' = "closed"
    /\ report' = [printed |-> TRUE, successful |-> successful, failed |-> failed,
                  total |-> Len(all_docs)]
    /\ pc' = "merge"
    /\ UNCHANGED <<nav, cached, rerun, visited_urls, sections, doc_metadata, discovered,
                   i, successful, failed, files, navigations, browser_errors, prior,
                   last, toc_html, toc_created, merged, warnings, merge_result>>

(***************************************************************************)
(* merge_pdfs (lines 386-414)                                              *)
(***************************************************************************)
RECURSIVE NamesUntilMissing(_, _)
NamesUntilMissing(docs, dir) ==
    IF docs = <<>> \/ Head(docs).pdf_filename \notin DOMAIN dir THEN <<>>
    ELSE <<Head(docs).pdf_filename>> \o NamesUntilMissing(Tail(docs), dir)

\* Appended with the loop left at the first missing file instead of going on.
AppendedUntilMissing(docs, dir) == NamesUntilMissing(docs, dir)

\* The files merger.append is called with.
Appended(docs, dir) ==
    LET present == SelectSeq(docs, LAMBDA d : Exists(dir, d.pdf_filename))
    IN [k \in 1..Len(present) |-> present[k].pdf_filename]

\* The files the "not found, skipping" warning names.
Skipped(docs, dir) ==
    LET absent == SelectSeq(docs, LAMBDA d : ~Exists(dir, d.pdf_filename))
    IN [k \in 1..Len(absent) |-> absent[k].pdf_filename]

\* merge_pdfs returns the path unless the merge library raises.
MergeReturn(library_ok) == IF library_ok THEN "path" ELSE "None"

MergePdfs ==
    /\ pc = "merge"
    /\ merged' = Appended(doc_metadata, files)
    /\ warnings' = Skipped(doc_metadata, files)
    /\ \E library_ok \in BOOLEAN : merge_result' = MergeReturn(library_ok)
    /\ pc' = "done"
    /\ UNCHANGED <<nav, cached, rerun, browser, visited_urls, sections, doc_metadata,
                   discovered, i, successful, failed, files, navigations,
                   browser_errors, prior, last, toc_html, toc_created, report>>

(***************************************************************************)
(* A second invocation of the program against the same site and directory  *)
(***************************************************************************)
\* Restart that runs the second discovery on the adapter object of the first
\* instead of a freshly constructed one.
RestartSameAdapter ==
    /\ pc \in {"done", "aborted"}
    /\ ~rerun
    /\ \E flag \in BOOLEAN : cached' = flag
    /\ rerun' = TRUE
    /\ pc' = "discover"
    /\ browser' = "none"
    /\ doc_metadata' = <<>>
    /\ discovered' = <<>>
    /\ i' = 0
    /\ successful' = 0
    /\ failed' = 0
    /\ navigations' = 0
    /\ browser_errors' = 0
    /\ prior' = [ran |-> TRUE, cached |-> cached, files |-> DOMAIN files,
                 discovered |-> discovered, sections |-> sections]
    /\ last' = NoCall
    /\ toc_html' = <<>>
    /\ toc_created' = "none"
    /\ report' = NoReport
    /\ merged' = <<>>
    /\ warnings' = <<>>
    /\ merge_result' = "none"
    /\ UNCHANGED <<nav, files, visited_urls, sections>>

Restart ==
    /\ pc \in {"done", "aborted"}
    /\ ~rerun
    /\ \E flag \in BOOLEAN : cached' = flag
    /\ rerun' = TRUE
    /\ pc' = "discover"
    /\ browser' = "none"
    /\ visited_urls' = {}
    /\ sections' = <<>>
    /\ doc_metadata' = <<>>
    /\ discovered' = <<>>
    /\ i' = 0
    /\ successful' = 0
    /\ failed' = 0
    /\ navigations' = 0
    /\ browser_errors' = 0
    /\ prior' = [ran |-> TRUE, cached |-> cached, files |-> DOMAIN files,
                 discovered |-> discovered, sections |-> sections]
    /\ last' = NoCall
    /\ toc_html' = <<>>
    /\ toc_created' = "none"
    /\ report' = NoReport
    /\ merged' = <<>>
    /\ warnings' = <<>>
    /\ merge_result' = "none"
    /\ UNCHANGED <<nav, files>>

\* One invocation of the program.
Next ==
    \/ Discover
    \/ DiscoverRaises
    \/ SavePageAsPdf
    \/ CreateTocPdf
    \/ Report
    \/ MergePdfs

Spec == Init /\ [][Next]_vars

\* Two invocations, one after the other, against an unchanged site.
InitRerun == InitWith(PipelineLinks, MaxRerunNodes)

NextRerun ==
    \/ Discover
    \/ DiscoverRaises
    \/ SavePageAsPdf
    \/ CreateTocPdf
    \/ Report
    \/ MergePdfs
    \/ Restart

SpecRerun == InitRerun /\ [][NextRerun]_vars


\* Discovery alone, over sidebars that also hold links whose extraction raises.
InitDiscovery == InitWith(DiscoveryLinks, MaxDiscoveryNodes)

NextDiscovery ==
    \/ Discover
    \/ DiscoverRaises

SpecDiscovery == InitDiscovery /\ [][NextDiscovery]_vars

(***************************************************************************)
(* The legacy single-site script, playwright_scraper.py                    *)
(*                                                                         *)
(* The same pipeline in one class.  An entry carries 'path' (the directory *)
(* is fixed, so the path is modelled by its file name) and 'filename';     *)
(* the index is the length of the list.                                    *)
(***************************************************************************)
\* Lines 95-102: the slug, without the collapsing of underscores.
LegacySlug(url) ==
    LET stripped == Strip(ReplaceDocsAndSlash(UrlPath(url)))
        named == IF stripped = <<>> THEN GettingStarted ELSE stripped
    IN CleanChars(named)

\* PlaywrightDocScraper.generate_file_entry: the entry it appends to docs.
LegacyGenerateFileEntry(url, title, section, docs) ==
    [path |-> Format03d(Len(docs)) \o <<95>> \o LegacySlug(url) \o DotPdf,
     title |-> IF title # <<>> THEN title ELSE TitleCase(LegacySlug(url)),
     url |-> url,
     section |-> section,
     filename |-> LegacySlug(url)]

\* The body of the "for link in sidebar_links" loop (lines 76-87).
LegacyProcessLink(st, link, section_title) ==
    IF link.raises THEN st
    ELSE IF link.href # <<>> /\ ContainsDocs(link.href)
            /\ link.href \notin st.visited_urls
    THEN LET url == IF StartsWithSlash(link.href)
                    THEN urljoin(base_url, link.href) ELSE link.href
             visited == st.visited_urls \cup {url}
         IN IF UrlparseRaises(url)
            THEN [st EXCEPT !.visited_urls = visited]
            ELSE [st EXCEPT !.visited_urls = visited,
                            !.doc_metadata = Append(@,
                                LegacyGenerateFileEntry(url, link.title, section_title, @))]
    ELSE st

RECURSIVE LegacyProcessLinks(_, _, _)
LegacyProcessLinks(st, links, section_title) ==
    IF links = <<>> THEN st
    ELSE LegacyProcessLinks(LegacyProcessLink(st, Head(links), section_title),
                            Tail(links), section_title)

RECURSIVE LegacyProcessSections(_, _)
\* The "for section in sections" loop (lines 70-87).
LegacyProcessSections(st, secs) ==
    IF secs = <<>> THEN st
    ELSE LET s == Head(secs)
             st1 == [st EXCEPT !.sections = Append(@, s.title)]
         IN LegacyProcessSections(LegacyProcessLinks(st1, s.links, s.title), Tail(secs))

\* get_all_doc_urls of the script on an object with the given state, with the
\* sidebar present.
LegacyGetAllDocUrls(tree, visited, secs, docs) ==
    LegacyProcessSections([visited_urls |-> visited, sections |-> secs,
                           doc_metadata |-> docs], tree)

\* scrape_all_docs, lines 542-557: launch, discovery, the no-entries exit.
\* The list returned is self.doc_metadata itself.
LegacyDiscover ==
    /\ pc = "discover"
    /\ \E sidebar \in BOOLEAN :
        LET r == LegacyGetAllDocUrls(nav, visited_urls, sections, doc_metadata)
            docs == IF sidebar THEN r.doc_metadata ELSE <<>>
        IN /\ visited_urls' = IF sidebar THEN r.visited_urls ELSE visited_urls
           /\ sections' = IF sidebar THEN r.sections ELSE sections
           /\ discovered' = docs
           /\ doc_metadata' = IF sidebar THEN docs ELSE doc_metadata
           /\ IF docs = <<>>
              THEN browser' = "closed" /\ pc' = "aborted"
              ELSE browser' = "open" /\ pc' = "render"
    /\ UNCHANGED <<nav, cached, rerun, i, successful, failed, files, navigations,
                   browser_errors, prior, last, toc_html, toc_created, report, merged,
                   warnings, merge_result>>

\* Discovery of the script raises out of scrape_all_docs: at the first
\* navigation (lines 35-36, at = 0) or at the read of the title of group number
\* at (line 72); the entries of the groups before it are in self.doc_metadata.
LegacyDiscoverRaises ==
    /\ pc = "discover"
    /\ \E at \in 0..Len(nav) :
        LET r == LegacyGetAllDocUrls(SubSeq(nav, 1, at - 1), visited_urls, sections,
                                     doc_metadata)
        IN /\ visited_urls' = IF at = 0 THEN visited_urls ELSE r.visited_urls
           /\ sections' = IF at = 0 THEN sections ELSE r.sections
           /\ doc_metadata' = IF at = 0 THEN doc_metadata ELSE r.doc_metadata
    /\ browser' = "open"
    /\ pc' = "raised"
    /\ UNCHANGED <<nav, cached, rerun, discovered, i, successful, failed, files,
                   navigations, browser_errors, prior, last, toc_html, toc_created,
                   report, merged, warnings, merge_result>>

\* Line 161: the cache test of the script.
LegacyCacheHit(flag, dir, doc) == flag /\ Exists(dir, doc.path)

\* What one save_page_as_pdf call of the script does (lines 157-282). Its
\* return value is True, False, or None from the bare return of line 163.
LegacyRenderEffects(flag, dir, doc, index, outcome) ==
    IF LegacyCacheHit(flag, dir, doc)
    THEN [called |-> TRUE, index |-> index, cache_hit |-> TRUE, navigated |-> FALSE,
          stabilized |-> FALSE, banner |-> 0, styled |-> FALSE,
          pdf_written |-> FALSE, returned |-> "None"]
    ELSE [called |-> TRUE, index |-> index, cache_hit |-> FALSE, navigated |-> TRUE,
          stabilized |-> outcome \in {"evaluate", "style", "pdf", "ok"},
          banner |-> IF outcome \in {"style", "pdf", "ok"} THEN index + 1 ELSE 0,
          styled |-> outcome \in {"pdf", "ok"},
          pdf_written |-> outcome = "ok",
          returned |-> IF outcome = "ok" /\ HasFilenameKey(doc) THEN "True" ELSE "False"]

\* The truth value "if await self.save_page_as_pdf(...)" finds (line 567).
Truthy(value) == value = "True"

\* One iteration of the script's render loop (lines 564-570).
LegacySavePageAsPdf ==
    /\ pc = "render"
    /\ i < Len(doc_metadata)
    /\ \E outcome \in RenderOutcomes :
        LET doc == doc_metadata[i + 1]
            e == LegacyRenderEffects(cached, files, doc, i, outcome)
        IN /\ last' = e
           /\ navigations' = IF e.navigated THEN navigations + 1 ELSE navigations
           /\ files' = IF e.pdf_written
                       THEN WriteFile(files, doc.path, [second |-> rerun, by |-> i + 1])
                       ELSE files
           /\ successful' = IF Truthy(e.returned) THEN successful + 1 ELSE successful
           /\ failed' = IF Truthy(e.returned) THEN failed ELSE failed + 1
           /\ browser_errors' = IF e.navigated /\ outcome # "ok"
                                THEN browser_errors + 1 ELSE browser_errors
    /\ i' = i + 1
    /\ UNCHANGED <<nav, cached, rerun, pc, browser, visited_urls, sections, doc_metadata,
                   discovered, prior, toc_html, toc_created, report, merged, warnings,
                   merge_result>>

\* Line 424: docs = sections_dict[section] raises KeyError for a recorded
\* section that no entry belongs to.
LegacyTocRaises(docs, secs) ==
    \E k \in 1..Len(secs) : ~InSectionsDict(docs, secs[k])

RECURSIVE LegacyTocItems(_, _, _)
\* The loop over self.sections (lines 422-441), for sections that all have docs.
LegacyTocItems(docs, secs, counter) ==
    IF secs = <<>> THEN <<>>
    ELSE LET ds == SectionDocs(docs, Head(secs))
         IN <<[kind |-> "header", section |-> Head(secs)]>>
            \o SectionItems(ds, counter)
            \o LegacyTocItems(docs, Tail(secs), counter + Len(ds))

\* The pseudo-entry of lines 495-500.
LegacyTocEntry ==
    [path |-> TocName, title |-> TocTitle, url |-> <<"Table of Contents">>, index |-> -1]

\* Where the script's create_toc_pdf can raise: in create_table_of_contents
\* ("synthesis"), or as in the generic pipeline.
LegacyTocOutcomes(docs, secs) ==
    IF LegacyTocRaises(docs, secs) THEN {"synthesis"} ELSE TocOutcomes

\* create_toc_pdf of the script (lines 461-507).
LegacyCreateTocPdf ==
    /\ pc = "render"
    /\ i = Len(doc_metadata)
    /\ \E outcome \in LegacyTocOutcomes(doc_metadata, sections) :
        /\ toc_html' = IF outcome = "synthesis" THEN <<>>
                       ELSE LegacyTocItems(doc_metadata, sections, 1)
        /\ files' = IF outcome \in {"close", "ok"}
                    THEN WriteFile(files, TocName, [second |-> rerun, by |-> 0])
                    ELSE files
        /\ doc_metadata' = IF outcome = "ok" THEN <<LegacyTocEntry>> \o doc_metadata
                           ELSE doc_metadata
        /\ toc_created' = IF outcome = "ok" THEN "True" ELSE "False"
    /\ last' = NoCall
    /\ pc' = "report"
    /\ UNCHANGED <<nav, cached, rerun, browser, visited_urls, sections, discovered, i,
                   successful, failed, navigations, browser_errors, prior, report,
                   merged, warnings, merge_result>>

\* Lines 575-581 of the script: close the browser and print the summary.
LegacyReport ==
    /\ pc = "report"
    /\ browser' = "closed"
    /\ report' = [printed |-> TRUE, successful |-> successful, failed |-> failed,
                  total |-> Len(doc_metadata)]
    /\ pc' = "merge"
    /\ UNCHANGED <<nav, cached, rerun, visited_urls, sections, doc_metadata, discovered,
                   i, successful, failed, files, navigations, browser_errors, prior,
                   last, toc_html, toc_created, merged, warnings, merge_result>>

\* merge_pdfs of the script (lines 509-536): the files appended, by doc['path'].
LegacyAppended(docs, dir) ==
    LET present == SelectSeq(docs, LAMBDA d : Exists(dir, d.path))
    IN [k \in 1..Len(present) |-> present[k].path]

LegacySkipped(docs, dir) ==
    LET absent == SelectSeq(docs, LAMBDA d : ~Exists(dir, d.path))
    IN [k \in 1..Len(absent) |-> absent[k].path]

LegacyMergePdfs ==
    /\ pc = "merge"
    /\ merged' = LegacyAppended(doc_metadata, files)
    /\ warnings' = LegacySkipped(doc_metadata, files)
    /\ \E library_ok \in BOOLEAN : merge_result' = MergeReturn(library_ok)
    /\ pc' = "done"
    /\ UNCHANGED <<nav, cached, rerun, browser, visited_urls, sections, doc_metadata,
                   discovered, i, successful, failed, files, navigations,
                   browser_errors, prior, last, toc_html, toc_created, report>>

\* Two invocations of the script, one after the other, against an unchanged
\* site; each starts from a new PlaywrightDocScraper (line 600).
NextLegacy ==
    \/ LegacyDiscover
    \/ LegacyDiscoverRaises
    \/ LegacySavePageAsPdf
    \/ LegacyCreateTocPdf
    \/ LegacyReport
    \/ LegacyMergePdfs
    \/ Restart

SpecLegacy == InitRerun /\ [][NextLegacy]_vars


(***************************************************************************)
(* Properties                                                              *)
(***************************************************************************)
RECURSIVE Flatten(_)
Flatten(ss) == IF ss = <<>> THEN <<>> ELSE Head(ss) \o Flatten(Tail(ss))

RECURSIVE IsSubseq(_, _)
\* s is obtained from t by deleting elements.
IsSubseq(s, t) ==
    IF s = <<>> THEN TRUE
    ELSE IF t = <<>> THEN FALSE
    ELSE IF Head(s) = Head(t) THEN IsSubseq(Tail(s), Tail(t))
    ELSE IsSubseq(s, Tail(t))

RECURSIVE StrLess(_, _)
\* Python's str "<": lexicographic by code point, a proper prefix is lower.
StrLess(s, t) ==
    IF t = <<>> THEN FALSE
    ELSE IF s = <<>> THEN TRUE
    ELSE IF Head(s) # Head(t) THEN Head(s) < Head(t)
    ELSE StrLess(Tail(s), Tail(t))

\* Discovery has returned a non-empty list in the current invocation.
Discovered == pc \in {"render", "report", "merge", "done"}

PdfNames(docs) == [k \in 1..Len(docs) |-> docs[k].pdf_filename]

\* The sidebar's links in traversal order, each as the pair of its group's
\* title and its href resolved against the base URL.
TraversalOf(tree) ==
    Flatten([s \in 1..Len(tree) |->
        [k \in 1..Len(tree[s].links) |->
            <<tree[s].title,
              IF StartsWithSlash(tree[s].links[k].href)
              THEN <<base_url>> \o tree[s].links[k].href
              ELSE tree[s].links[k].href>>]])

SectionAndUrl(docs) == [k \in 1..Len(docs) |-> <<docs[k].section, docs[k].url>>]

\* C1: the list discovery returns holds no two entries with the same url.
C1_NoTwoEntriesShareUrl ==
    \A j, k \in 1..Len(discovered) :
        j # k => discovered[j].url # discovered[k].url

\* C2: the k-th returned entry (zero-based) carries index k in its
\* pdf_filename: the name starts with the three-digit k and an underscore.
C2_IndexIsPosition ==
    \A k \in 1..Len(discovered) :
        LET name == discovered[k].pdf_filename
            idx == Format03d(k - 1)
        IN /\ Len(name) > Len(idx)
           /\ SubSeq(name, 1, Len(idx)) = idx
           /\ name[Len(idx) + 1] = 95

\* C3: the returned list follows the section-by-section, link-by-link
\* traversal of the sidebar, and that order is kept by the render loop, by the
\* insertion of the TOC (which only goes in front) and by the merge.
C3_TraversalOrderKept ==
    /\ IsSubseq(SectionAndUrl(discovered), TraversalOf(nav))
    /\ Discovered =>
        /\ doc_metadata \in {discovered, <<TocEntry>> \o discovered}
        /\ IsSubseq(merged, PdfNames(doc_metadata))

\* C3 witness: a finished run over two entries of two different groups, with
\* the TOC in front and all three documents merged.
C3_Witness ==
    /\ pc = "done"
    /\ Len(discovered) >= 2
    /\ discovered[1].section # discovered[2].section
    /\ discovered[1].url # discovered[2].url
    /\ toc_created = "True"
    /\ Len(merged) = Len(discovered) + 1

\* C4: the merge appends exactly the list entries whose file exists, in list
\* order and the TOC first when it was inserted; every other entry is named
\* by one warning, and the merge goes on to its end.
C4_MergeAppendsExistingInOrder ==
    pc = "done" =>
        /\ Len(merged) =
             Cardinality({k \in 1..Len(doc_metadata) :
                            doc_metadata[k].pdf_filename \in DOMAIN files})
        /\ Len(merged) + Len(warnings) = Len(doc_metadata)
        /\ IsSubseq(merged, PdfNames(doc_metadata))
        /\ IsSubseq(warnings, PdfNames(doc_metadata))
        /\ \A k \in 1..Len(merged) : merged[k] \in DOMAIN files
        /\ \A k \in 1..Len(warnings) : warnings[k] \notin DOMAIN files
        /\ toc_created = "True" => merged # <<>> /\ merged[1] = TocName
        /\ merge_result \in {"path", "None"}

\* C4 witness: a merge that skipped a missing file with a warning, appended
\* the TOC and another entry, and returned the merged path.
C4_Witness ==
    /\ pc = "done"
    /\ warnings # <<>>
    /\ Len(merged) >= 2
    /\ toc_created = "True"
    /\ merge_result = "path"

\* C5: when no render of the run met a browser error, the report states
\* Successful = N, Failed = 0, Total = N for the N discovered entries.
C5_AllRenderedReportsAllSuccessful ==
    (report.printed /\ browser_errors = 0) =>
        /\ report.successful = Len(discovered)
        /\ report.failed = 0
        /\ report.total = Len(discovered)

\* The toc-entry items and the header items of the synthesized TOC.
TocEntries == SelectSeq(toc_html, LAMBDA x : x.kind = "entry")
TocHeaders == SelectSeq(toc_html, LAMBDA x : x.kind = "header")

\* How often the entry (title, url) occurs in a sequence of records.
Occurrences(items, title, url) ==
    Cardinality({k \in 1..Len(items) : items[k].title = title /\ items[k].url = url})

\* C6: the TOC lists each discovered entry exactly once, numbered 1..N by one
\* running counter, under exactly one header per section that has an entry,
\* the headers in declaration order.
C6_TocListsEachEntryOnce ==
    toc_created # "none" =>
        /\ Len(TocEntries) = Len(discovered)
        /\ \A k \in 1..Len(TocEntries) : TocEntries[k].number = k
        /\ \A k \in 1..Len(discovered) :
             Occurrences(TocEntries, discovered[k].title, discovered[k].url)
               = Occurrences(discovered, discovered[k].title, discovered[k].url)
        /\ \A j, k \in 1..Len(TocHeaders) :
             j # k => TocHeaders[j].section # TocHeaders[k].section
        /\ \A k \in 1..Len(discovered) :
             \E h \in 1..Len(TocHeaders) : TocHeaders[h].section = discovered[k].section
        /\ \A h \in 1..Len(TocHeaders) :
             \E k \in 1..Len(discovered) : TocHeaders[h].section = discovered[k].section
        /\ IsSubseq([h \in 1..Len(TocHeaders) |-> TocHeaders[h].section], sections)

\* C7: the reserved TOC name sorts before every discovered entry's name and
\* no entry's name carries the index 000.
C7_TocNameSortsFirst ==
    \A k \in 1..Len(discovered) :
        /\ StrLess(TocName, discovered[k].pdf_filename)
        /\ SubSeq(discovered[k].pdf_filename, 1, 3) # <<48, 48, 48>>


\* C8: a save_page_as_pdf call made with the cache flag set for an entry whose
\* file exists navigates nowhere, runs no stabilization, injects no banner and
\* no style, writes no PDF and leaves the directory as it was.
C8_CacheHitTouchesNothing ==
    [][(/\ pc = "render"
        /\ i < Len(doc_metadata)
        /\ i' = i + 1
        /\ cached
        /\ doc_metadata[i + 1].pdf_filename \in DOMAIN files)
       => (/\ navigations' = navigations
           /\ files' = files
           /\ ~last'.navigated
           /\ ~last'.stabilized
           /\ last'.banner = 0
           /\ ~last'.styled
           /\ ~last'.pdf_written)]_vars

\* C8 witness: in a second invocation, a call just returned from the cache
\* short-circuit for a file the first invocation wrote.
C8_Witness ==
    /\ rerun
    /\ cached
    /\ last.called
    /\ last.cache_hit
    /\ ~files[doc_metadata[last.index + 1].pdf_filename].second

\* Both invocations ran with the cache flag and the second one is under way.
SecondCachedRun == rerun /\ cached /\ prior.ran /\ prior.cached

\* C9 as stated: when both cached runs went through the whole pipeline over
\* the same discovered list, the second navigates to no entry and leaves the
\* same set of file names as the first.
C9_SecondRunNavigatesNowhere ==
    (SecondCachedRun /\ pc = "done" /\ prior.discovered = discovered) =>
        /\ navigations = 0
        /\ DOMAIN files = prior.files

\* C9, amended: when the first run wrote the file of every discovered entry,
\* the second cached run navigates to no entry; and when the first run also
\* wrote the TOC file, the set of file names stays the same.
C9_SecondRunOverCompleteCache ==
    (/\ SecondCachedRun
     /\ \A k \in 1..Len(discovered) : discovered[k].pdf_filename \in prior.files)
    => /\ navigations = 0
       /\ TocName \in prior.files => DOMAIN files = prior.files

\* C9 witness: the second cached run has finished over two entries whose
\* files, and the TOC file, the first run had written.
C9_Witness ==
    /\ SecondCachedRun
    /\ pc = "done"
    /\ Len(discovered) >= 2
    /\ discovered[1].pdf_filename # discovered[2].pdf_filename
    /\ \A k \in 1..Len(discovered) : discovered[k].pdf_filename \in prior.files
    /\ TocName \in prior.files

\* C10: a render that fails is counted as one failure and the loop goes on to
\* the next entry; the run never stops between discovery and the end of the
\* merge, and at its end every entry was attempted, the TOC was synthesized,
\* the report printed and the merge made.
C10_RenderFailureNeverStopsRun ==
    /\ [][(pc = "render" /\ i < Len(doc_metadata) /\ last'.called /\ ~last'.returned)
          => (/\ pc' = "render"
              /\ i' = i + 1
              /\ failed' = failed + 1
              /\ successful' = successful
              /\ doc_metadata' = doc_metadata)]_vars
    /\ [](pc \notin {"discover", "aborted", "raised", "done"}
            => /\ pc \in {"render", "report", "merge"}
               /\ ENABLED (SavePageAsPdf \/ CreateTocPdf \/ Report \/ MergePdfs))
    /\ [](pc \in {"report", "merge", "done"}
            => /\ i = Len(discovered)
               /\ successful + failed = Len(discovered)
               /\ toc_created # "none")
    /\ [](pc = "done" => report.printed /\ merge_result # "none")

\* C10 witness: a run in which every one of two entries met a browser error
\* and which went on to the TOC, the report and the merge.
C10_Witness ==
    /\ pc = "done"
    /\ Len(discovered) >= 2
    /\ browser_errors = Len(discovered)
    /\ failed = Len(discovered)
    /\ toc_created = "True"
    /\ report.printed
    /\ merge_result = "path"

\* C11: an entry whose render was reported failed contributes no document to
\* the merged output: the merge appends at most one document per entry that
\* was not reported failed, and with exactly one of N entries reported failed
\* and the TOC made, the merged output is the TOC plus N-1 documents.
C11_FailedEntryNotMerged ==
    pc = "done" =>
        /\ Len(merged) <= (IF toc_created = "True" THEN 1 ELSE 0)
                            + Len(discovered) - failed
        /\ (failed = 1 /\ toc_created = "True") => Len(merged) = Len(discovered)

\* C12: when the synthesis or the export of the TOC fails, no TOC pseudo-entry
\* is inserted and the list stays as discovery returned it; the run goes on
\* to the report and the merge; and the merge runs over the discovered
\* entries in discovery order without the TOC document, even when a TOC file
\* is on disk.
C12_TocFailureLeavesListAlone ==
    toc_created = "False" =>
        /\ doc_metadata = discovered
        /\ pc \in {"report", "merge", "done"}
        /\ pc # "done" => ENABLED (Report \/ MergePdfs)
        /\ pc = "done" =>
            /\ \A m \in 1..Len(merged) : merged[m] # TocName
            /\ IsSubseq(merged, PdfNames(discovered))
            /\ Len(merged) =
                 Cardinality({k \in 1..Len(discovered) :
                                discovered[k].pdf_filename \in DOMAIN files})
            /\ merge_result \in {"path", "None"}

\* C12 witness: a second invocation whose TOC export failed before writing,
\* with the TOC file of the first invocation still on disk, merged its two
\* entries and nothing else.
C12_Witness ==
    /\ rerun
    /\ pc = "done"
    /\ toc_created = "False"
    /\ TocName \in DOMAIN files
    /\ ~files[TocName].second
    /\ Len(discovered) = 2
    /\ Len(merged) = 2

\* Discovery ran over a sidebar that has groups and recorded none of them:
\* the wait for the navigation container failed.
SidebarMissing == pc \notin {"discover", "raised"} /\ nav # <<>> /\ sections = <<>>

\* C13: when the navigation container does not appear within the sidebar
\* wait, discovery yields no entries and the run ends there, with the browser
\* closed: no render call, no TOC, no report, no merged file.
C13_NoSidebarEndsRun ==
    SidebarMissing =>
        /\ pc = "aborted"
        /\ discovered = <<>>
        /\ doc_metadata = <<>>
        /\ browser = "closed"
        /\ i = 0
        /\ navigations = 0
        /\ ~last.called
        /\ toc_created = "none"
        /\ toc_html = <<>>
        /\ files = EmptyDir
        /\ ~report.printed
        /\ merged = <<>>
        /\ merge_result = "none"
        /\ ~ENABLED Next

\* C13 witness: a run over a sidebar with two documentation links of two
\* groups ended at the failed sidebar wait.
C13_Witness ==
    /\ SidebarMissing
    /\ Len(nav) = 2
    /\ nav[1].links = <<RelA>>
    /\ nav[2].links = <<RelU>>
    /\ browser = "closed"

C15_NameOrderIsDiscoveryOrder ==
    \A j, k \in 1..Len(discovered) :
        j < k => StrLess(discovered[j].pdf_filename, discovered[k].pdf_filename)

\* C16 as stated: the TOC is synthesized only after the last entry was
\* rendered, the merge is made only after the TOC synthesis has finished, and
\* the success/failure/total report is printed only after the merge has
\* finished.
C16_ReportOnlyAfterMerge ==
    /\ toc_created # "none" => i = Len(discovered)
    /\ merge_result # "none" => toc_created # "none"
    /\ report.printed => merge_result # "none"

\* The phase changes of one invocation.
PhaseOrder ==
    {<<"discover", "raised">>, <<"discover", "aborted">>, <<"discover", "render">>,
     <<"render", "render">>,
     <<"render", "report">>, <<"report", "merge">>, <<"merge", "done">>}

\* C16, amended: the phases occur in the order Discover, RenderLoop,
\* SynthesizeTOC, Report, Merge. The TOC is synthesized only after the last
\* entry was rendered, the report is printed only after the TOC synthesis has
\* finished and the browser was closed, and the merge is made only after the
\* report was printed.
C16_PhasesInOrder ==
    /\ [][(<<pc, pc'>> \in PhaseOrder)]_vars
    /\ [](toc_created # "none" => i = Len(discovered) /\ pc \in {"report", "merge", "done"})
    /\ [](report.printed => toc_created # "none" /\ browser = "closed" /\ pc \in {"merge", "done"})
    /\ [](merge_result # "none" => report.printed /\ pc = "done")
    /\ [](pc = "done" => merge_result # "none")

\* C16 witness: two entries were rendered, the TOC made and the report
\* printed, and the merge has not started.
C16_Witness ==
    /\ pc = "merge"
    /\ Len(discovered) = 2
    /\ i = 2
    /\ toc_created = "True"
    /\ report.printed
    /\ merge_result = "none"
    /\ merged = <<>>

\* C17: within one run every entry is rendered at most once and the entries
\* are rendered one at a time in discovery order: each step of the render
\* loop is one save_page_as_pdf call, made for the entry at the loop position,
\* which has returned when the position moves on by one; a failed entry is
\* not attempted again, and no entry is navigated to twice.
C17_EachEntryRenderedOnceInOrder ==
    /\ [][(pc = "render" /\ pc' = "render")
          => (/\ i' = i + 1
              /\ last'.called
              /\ last'.index = i
              /\ navigations' \in {navigations, navigations + 1}
              /\ doc_metadata' = doc_metadata)]_vars
    /\ [](last.called => pc = "render" /\ last.index = i - 1)
    /\ [](navigations <= i /\ i <= Len(discovered))
    /\ [](successful + failed = i)

\* C17 witness: the first entry's render failed at the browser, and the loop
\* has gone on to the second entry and rendered it.
C17_Witness ==
    /\ pc = "render"
    /\ i = 2
    /\ last.called
    /\ last.index = 1
    /\ last.pdf_written
    /\ browser_errors = 1
    /\ failed = 2
    /\ navigations = 2

\* C18, for the legacy script: a save_page_as_pdf call made with the cache
\* flag set for an entry whose file exists adds one to the successful counter
\* and leaves the failed counter as it was.
C18_CacheHitCountedSuccessful ==
    [][(/\ pc = "render"
        /\ i < Len(doc_metadata)
        /\ i' = i + 1
        /\ cached
        /\ doc_metadata[i + 1].path \in DOMAIN files)
       => (/\ successful' = successful + 1
           /\ failed' = failed)]_vars

\* C19, for the legacy script: with a recorded section that no entry belongs
\* to, the TOC synthesis succeeds unless the browser fails, the synthesized
\* TOC has no header for that section and has one for every other, and a TOC
\* that was made is the first entry of the list.
C19_EmptySectionOmittedFromToc ==
    (/\ toc_created # "none"
     /\ \E k \in 1..Len(sections) : ~InSectionsDict(discovered, sections[k]))
    => /\ toc_html # <<>>
       /\ \A h \in 1..Len(TocHeaders) : InSectionsDict(discovered, TocHeaders[h].section)
       /\ \A k \in 1..Len(discovered) :
            \E h \in 1..Len(TocHeaders) : TocHeaders[h].section = discovered[k].section
       /\ toc_created = "True" =>
            /\ doc_metadata # <<>>
            /\ doc_metadata[1].title = TocTitle
            /\ Tail(doc_metadata) = discovered

\* Extracting the link raises: reading it does, or urlparse does on its href.
LinkRaises(link) == link.raises \/ UrlparseRaises(link.href)

\* The sidebar without the links whose extraction raises.
WithoutRaising(tree) ==
    [s \in 1..Len(tree) |->
        [tree[s] EXCEPT !.links = SelectSeq(@, LAMBDA l : ~LinkRaises(l))]]

SectionUrlTitle(docs) ==
    [k \in 1..Len(docs) |-> <<docs[k].section, docs[k].url, docs[k].title>>]

\* C20: a link whose extraction raises is skipped and nothing else is: a
\* discovery that returns records every group and returns, in traversal order, the same
\* entries (section, url, title) as it returns for the sidebar without the
\* raising links.
C20_RaisingLinkAloneSkipped ==
    (pc \notin {"discover", "raised"} /\ (sections # <<>> \/ nav = <<>>)) =>
        /\ sections = [s \in 1..Len(nav) |-> nav[s].title]
        /\ SectionUrlTitle(discovered)
             = SectionUrlTitle(GetAllDocUrls(WithoutRaising(nav), {}, <<>>).doc_metadata)
        /\ IsSubseq(SectionAndUrl(discovered), TraversalOf(WithoutRaising(nav)))

\* C20 witness: a group whose first link cannot be read and whose second
\* link's entry cannot be built, followed by a documentation link, which is
\* the one entry returned.
C20_Witness ==
    /\ pc = "render"
    /\ Len(nav) = 1
    /\ nav[1].links = <<Unreadable, BadAbs, RelU>>
    /\ Len(discovered) = 1
    /\ discovered[1].url = <<base_url, "/docs/", "u">>

\* C21: the browser is closed on every exit path of scrape_all_docs: after
\* normal completion, after the no-entries exit, and when an exception leaves
\* scrape_all_docs.
C21_BrowserClosedOnEveryExit ==
    pc \in {"done", "aborted", "raised"} => browser = "closed"

\* The url lies under the documentation path prefix of the base URL.
UnderDocsPrefix(url) == Len(url) >= 2 /\ url[1] = base_url /\ url[2] = "/docs/"

\* C22: every entry discovery returns has a url under the /docs/ prefix of the
\* adapter's base URL; links on another host, or with /docs/ not the leading
\* path segment, yield no entry.
C22_EntriesUnderDocsPrefix ==
    \A k \in 1..Len(discovered) : UnderDocsPrefix(discovered[k].url)

\* The url has a scheme and a host.
IsAbsolute(url) == url # <<>> /\ Head(url) \in Origins

\* C23: every entry discovery returns has an absolute url: a relative href
\* that passes the documentation filter was resolved against the base URL.
C23_EntryUrlsAbsolute ==
    \A k \in 1..Len(discovered) : IsAbsolute(discovered[k].url)

\* C24: a save_page_as_pdf call returns False only if it wrote no PDF for its
\* entry; a call whose PDF export completed returns True and the entry is
\* counted as successful.
C24_FailedOnlyIfNoPdfWritten ==
    (last.called /\ last.pdf_written) =>
        /\ last.returned
        /\ successful >= 1

\* C25: at the final report successful + failed is the number N of entries
\* discovery returned, and the reported Total is that N too: the TOC
\* pseudo-entry is not counted.
C25_ReportCountsDiscoveredEntries ==
    report.printed =>
        /\ report.successful + report.failed = Len(discovered)
        /\ report.total = Len(discovered)

\* The number the injected title banner of the k-th entry shows.
BannerNumber(k) == RenderEffects(FALSE, EmptyDir, discovered[k], k - 1, "ok").banner

\* C26: the synthesized TOC shows for every entry the number its title banner
\* shows: the TOC lists the entries in render order, the k-th item being the
\* k-th entry under the number of its banner.
C26_BannerNumberIsTocNumber ==
    toc_created # "none" =>
        /\ Len(TocEntries) = Len(discovered)
        /\ \A k \in 1..Len(discovered) :
             k <= Len(TocEntries) =>
                /\ TocEntries[k].url = discovered[k].url
                /\ TocEntries[k].title = discovered[k].title
                /\ TocEntries[k].number = BannerNumber(k)

\* C27: no two entries of one discovery pass share a pdf_filename, so no
\* render overwrites the file another entry's render wrote, no cache hit is
\* made on a file another entry wrote, and no file is merged twice.
C27_PdfFilenamesUnique ==
    /\ \A j, k \in 1..Len(discovered) :
         j # k => discovered[j].pdf_filename # discovered[k].pdf_filename
    /\ \A j, k \in 1..Len(merged) : j # k => merged[j] # merged[k]

====
